---- MODULE Spec2Model ----
(***************************************************************************)
(* Model of edgelet/iotedged/src/settings.rs: the layered configuration    *)
(* loader Settings<T>::new and the accessors of Settings<T>.               *)
(*                                                                         *)
(* A JSON document is modelled as a function from the leaf paths of the    *)
(* settings schema to string values; a leaf the document does not contain  *)
(* maps to Absent.                                                         *)
(***************************************************************************)
EXTENDS Naturals, Sequences, FiniteSets, TLC

\* Bound on the number of writes made through runtime_mut.
MaxMutations == 2

----------------------------------------------------------------------------
\* Document values

Absent == "<absent>"
\* a JSON object found where the schema wants a string
WrongShape == "<object>"
\* the empty JSON object {}
EmptyObj == "{}"

ProvKeys ==
    {"provisioning.source", "provisioning.device_connection_string",
     "provisioning.global_endpoint", "provisioning.scope_id"}

RuntimeKeys ==
    {"runtime.name", "runtime.type", "runtime.env", "runtime.config.image",
     "runtime.config.create_options", "runtime.config.auth",
     "runtime.config.command"}

TopKeys == {"hostname", "workload_uri", "management_uri", "docker_uri"}

LeafPaths == ProvKeys \cup RuntimeKeys \cup TopKeys

\* Config::default(): a configuration with no key set
EmptyDoc == [k \in LeafPaths |-> Absent]

DefaultConnStr == "HostName=something.some.com;DeviceId=some;SharedAccessKey=some"

SampleConnStr ==
    "HostName=something.something.com;DeviceId=something;SharedAccessKey=something"

Platforms == {"unix", "windows"}

DefaultProvisioning ==
    [k \in ProvKeys |->
        CASE k = "provisioning.source" -> "manual"
          [] k = "provisioning.device_connection_string" -> DefaultConnStr
          [] OTHER -> Absent]

DefaultRuntime ==
    [k \in RuntimeKeys |->
        CASE k = "runtime.name" -> "edgeAgent"
          [] k = "runtime.type" -> "docker"
          [] k = "runtime.env" -> EmptyObj
          [] k = "runtime.config.image" -> "microsoft/azureiotedge-agent:1.0-preview"
          [] k = "runtime.config.create_options" -> ""
          [] k = "runtime.config.auth" -> EmptyObj
          [] OTHER -> Absent]

\* DEFAULTS with the platform selection lost: the Unix document everywhere.
DEFAULTS_OnePlatform(p) ==
    DefaultProvisioning @@ DefaultRuntime @@
    [k \in TopKeys |->
        CASE k = "hostname" -> "localhost"
          [] k = "workload_uri" -> "http://0.0.0.0:8081"
          [] k = "management_uri" -> "http://0.0.0.0:8080"
          [] OTHER -> "unix:///var/run/docker.sock"]

\* The embedded default document, one per platform family.
DEFAULTS(p) ==
    DefaultProvisioning @@ DefaultRuntime @@
    [k \in TopKeys |->
        CASE k = "hostname" -> "localhost"
          [] k = "workload_uri" -> "http://0.0.0.0:8081"
          [] k = "management_uri" -> "http://0.0.0.0:8080"
          [] OTHER -> IF p = "unix" THEN "unix:///var/run/docker.sock"
                                    ELSE "http://localhost:2375"]

----------------------------------------------------------------------------
\* Override files the environment may hold

Prov(src, dcs, ge, sid) ==
    [k \in ProvKeys |->
        CASE k = "provisioning.source" -> src
          [] k = "provisioning.device_connection_string" -> dcs
          [] k = "provisioning.global_endpoint" -> ge
          [] OTHER -> sid]

GlobalEndpoint == "https://global.azure-devices-provisioning.net"
ScopeId == "0ne00000000"

ProvChoices ==
    {Prov(Absent, Absent, Absent, Absent),
     Prov("manual", DefaultConnStr, Absent, Absent),
     Prov("manual", SampleConnStr, Absent, Absent),
     Prov(Absent, SampleConnStr, Absent, Absent),
     Prov("manual", Absent, Absent, Absent),
     Prov("dps", Absent, GlobalEndpoint, ScopeId),
     Prov("dps", Absent, GlobalEndpoint, Absent),
     Prov("x509", SampleConnStr, GlobalEndpoint, ScopeId),
     Prov("manual", SampleConnStr, GlobalEndpoint, ScopeId)}

CustomImage == "example.azurecr.io/agent:2.0"

RuntimeChoices ==
    {[k \in RuntimeKeys |-> Absent],
     DefaultRuntime,
     [DefaultRuntime EXCEPT !["runtime.config.image"] = CustomImage],
     [k \in RuntimeKeys |-> IF k = "runtime.config.image" THEN CustomImage ELSE Absent],
     [k \in RuntimeKeys |->
        CASE k = "runtime.name" -> "edgeAgent"
          [] k = "runtime.type" -> "process"
          [] k = "runtime.env" -> EmptyObj
          [] k = "runtime.config.command" -> "/usr/bin/agent"
          [] OTHER -> Absent]}

HostnameChoices == {Absent, "localhost", "edge-device", WrongShape}
WorkloadUriChoices == {Absent, "http://0.0.0.0:8081", "not a uri"}
ManagementUriChoices == {Absent, "http://0.0.0.0:8080"}
DockerUriChoices == {Absent, "unix:///var/run/docker.sock", "http://localhost:2375"}

FileDocs ==
    {p @@ r @@ [k \in TopKeys |->
                  CASE k = "hostname" -> h
                    [] k = "workload_uri" -> w
                    [] k = "management_uri" -> m
                    [] OTHER -> d] :
        p \in ProvChoices, r \in RuntimeChoices, h \in HostnameChoices,
        w \in WorkloadUriChoices, m \in ManagementUriChoices,
        d \in DockerUriChoices}

\* What the override path names: nothing, a file that is not well-formed
\* JSON, or a well-formed document.
FileStates ==
    {[status |-> "missing", doc |-> EmptyDoc],
     [status |-> "malformed", doc |-> EmptyDoc]}
    \cup {[status |-> "ok", doc |-> d] : d \in FileDocs}

NoFile == [status |-> "missing", doc |-> EmptyDoc]

\* The workload-config types Settings<T> is instantiated with.
ConfigTypes == {"DockerConfig", "ProcessConfig"}

----------------------------------------------------------------------------
\* The collaborators: merge, URL parsing, serde decoding

\* Merge that takes an empty string in the overlay for an unset leaf.
Merge_EmptyStringUnset(base, over) ==
    [k \in LeafPaths |-> IF over[k] \notin {Absent, ""} THEN over[k] ELSE base[k]]

\* Config::merge: every leaf the overlay sets replaces the base's value,
\* every other leaf keeps it.
Merge(base, over) ==
    [k \in LeafPaths |-> IF over[k] # Absent THEN over[k] ELSE base[k]]

UrlErr == "<invalid url>"

\* Url::parse followed by serialisation: a special scheme with an empty
\* path gets the path "/", a string with no scheme is rejected.
UrlParse(s) ==
    CASE s = "http://0.0.0.0:8081" -> "http://0.0.0.0:8081/"
      [] s = "http://0.0.0.0:8080" -> "http://0.0.0.0:8080/"
      [] s = "http://localhost:2375" -> "http://localhost:2375/"
      [] s = "unix:///var/run/docker.sock" -> "unix:///var/run/docker.sock"
      [] OTHER -> UrlErr

IsString(v) == v \notin {Absent, WrongShape}

\* DecodeProvisioning that falls through to Manual on an unknown source.
DecodeProvisioning_FallThrough(doc) ==
    LET src == doc["provisioning.source"]
        dcs == doc["provisioning.device_connection_string"]
        ge == doc["provisioning.global_endpoint"]
        sid == doc["provisioning.scope_id"]
    IN  CASE src = "dps" /\ IsString(ge) /\ IsString(sid) ->
                <<[variant |-> "Dps", global_endpoint |-> ge, scope_id |-> sid]>>
          [] src # Absent /\ IsString(dcs) ->
                <<[variant |-> "Manual", device_connection_string |-> dcs]>>
          [] OTHER -> <<>>

\* #[serde(tag = "source")] #[serde(rename_all = "lowercase")] enum Provisioning.
\* The result is <<variant>> or <<>> when the document does not decode.
DecodeProvisioning(doc) ==
    LET src == doc["provisioning.source"]
        dcs == doc["provisioning.device_connection_string"]
        ge == doc["provisioning.global_endpoint"]
        sid == doc["provisioning.scope_id"]
    IN  CASE src = "manual" /\ IsString(dcs) ->
                <<[variant |-> "Manual", device_connection_string |-> dcs]>>
          [] src = "dps" /\ IsString(ge) /\ IsString(sid) ->
                <<[variant |-> "Dps", global_endpoint |-> ge, scope_id |-> sid]>>
          [] OTHER -> <<>>

\* T: DeserializeOwned, applied to runtime.config.
DecodeConfig(T, doc) ==
    LET image == doc["runtime.config.image"]
        opts == doc["runtime.config.create_options"]
        auth == doc["runtime.config.auth"]
        command == doc["runtime.config.command"]
    IN  CASE T = "DockerConfig" /\ IsString(image) /\ IsString(opts) ->
                <<[image |-> image, create_options |-> opts,
                   auth |-> IF auth = Absent THEN "None" ELSE auth]>>
          [] T = "ProcessConfig" /\ IsString(command) ->
                <<[command |-> command]>>
          [] OTHER -> <<>>

\* edgelet_core::ModuleSpec<T>
DecodeModuleSpec(T, doc) ==
    LET name == doc["runtime.name"]
        type == doc["runtime.type"]
        env == doc["runtime.env"]
        cfg == DecodeConfig(T, doc)
    IN  IF IsString(name) /\ IsString(type) /\ env = EmptyObj /\ cfg # <<>>
        THEN <<[name |-> name, type |-> type, env |-> <<>>, config |-> cfg[1]]>>
        ELSE <<>>

\* #[derive(Deserialize)] struct Settings<T>: every field is required and
\* the three URIs go through url_serde.
Decode(T, doc) ==
    LET prov == DecodeProvisioning(doc)
        rt == DecodeModuleSpec(T, doc)
        host == doc["hostname"]
        w == UrlParse(doc["workload_uri"])
        m == UrlParse(doc["management_uri"])
        d == UrlParse(doc["docker_uri"])
    IN  IF prov # <<>> /\ rt # <<>> /\ IsString(host)
           /\ w # UrlErr /\ m # UrlErr /\ d # UrlErr
        THEN <<[provisioning |-> prov[1], runtime |-> rt[1], hostname |-> host,
                workload_uri |-> w, management_uri |-> m, docker_uri |-> d]>>
        ELSE <<>>

----------------------------------------------------------------------------
\* State

VARIABLES
    platform,    \* the target family the build selected DEFAULTS for
    configType,  \* the T of Settings<T>
    file,        \* what the override path names (NoFile without a path)
    pc,          \* position of the load
    filename,    \* the argument of Settings::new
    config,      \* the document about to be decoded
    result,      \* how Settings::new ended: "Ok", "Err", "Panic"; "None" before
    settings,    \* <<the Settings value the caller owns>> or <<>>
    returned,    \* <<the Settings value as Settings::new returned it>> or <<>>
    lastRead,    \* what the last read accessor returned
    mutations    \* writes made through runtime_mut

vars == <<platform, configType, file, pc, filename, config, result, settings,
          returned, lastRead, mutations>>

env == <<platform, configType, file>>

NoneArg == "None"
SomePath == "Some(path)"

Init ==
    /\ platform \in Platforms
    /\ configType \in ConfigTypes
    /\ file = NoFile
    /\ pc = "NotLoaded"
    /\ filename = NoneArg
    /\ config = EmptyDoc
    /\ result = "None"
    /\ settings = <<>>
    /\ returned = <<>>
    /\ lastRead = <<>>
    /\ mutations = 0

\* Settings::new(filename): the call, with Config::default() as the start.
\* A path argument comes with what the file system holds under it.
New(fn, f) ==
    /\ pc = "NotLoaded"
    /\ pc' = "Merging"
    /\ filename' = fn
    /\ file' = IF fn = SomePath THEN f ELSE file
    /\ config' = EmptyDoc
    /\ UNCHANGED <<platform, configType, result, settings, returned, lastRead, mutations>>

\* MergeFileOk with the layers in the wrong order: the defaults laid over
\* the file.
MergeFileOk_DefaultsOnTop ==
    /\ pc = "Merging"
    /\ filename = SomePath
    /\ file.status = "ok"
    /\ config' = Merge(Merge(config, file.doc), DEFAULTS(platform))
    /\ pc' = "Decoding"
    /\ UNCHANGED <<env, filename, result, settings, returned, lastRead, mutations>>

\* settings.merge(File::with_name(val))? on a readable, well-formed file
MergeFileOk ==
    /\ pc = "Merging"
    /\ filename = SomePath
    /\ file.status = "ok"
    /\ config' = Merge(config, file.doc)
    /\ pc' = "Decoding"
    /\ UNCHANGED <<env, filename, result, settings, returned, lastRead, mutations>>

\* MergeFileErr that goes on with the defaults when the file is missing.
MergeFileErr_MissingFallsBack ==
    /\ pc = "Merging"
    /\ filename = SomePath
    /\ file.status # "ok"
    /\ IF file.status = "missing"
       THEN pc' = "Decoding" /\ config' = DEFAULTS(platform) /\ result' = result
       ELSE pc' = "Failed" /\ result' = "Err" /\ config' = config
    /\ UNCHANGED <<env, filename, settings, returned, lastRead, mutations>>

\* MergeFileErr that goes on with the defaults when the file does not parse.
MergeFileErr_MalformedFallsBack ==
    /\ pc = "Merging"
    /\ filename = SomePath
    /\ file.status # "ok"
    /\ IF file.status = "malformed"
       THEN pc' = "Decoding" /\ config' = DEFAULTS(platform) /\ result' = result
       ELSE pc' = "Failed" /\ result' = "Err" /\ config' = config
    /\ UNCHANGED <<env, filename, settings, returned, lastRead, mutations>>

\* settings.merge(File::with_name(val))? when the file is missing or malformed
MergeFileErr ==
    /\ pc = "Merging"
    /\ filename = SomePath
    /\ file.status # "ok"
    /\ pc' = "Failed"
    /\ result' = "Err"
    /\ UNCHANGED <<env, filename, config, settings, returned, lastRead, mutations>>

\* settings.try_into().map_err(Error::from), success
TryIntoOk ==
    /\ pc = "Decoding"
    /\ filename = SomePath
    /\ Decode(configType, config) # <<>>
    /\ pc' = "Ready"
    /\ result' = "Ok"
    /\ settings' = Decode(configType, config)
    /\ returned' = settings'
    /\ UNCHANGED <<env, filename, config, lastRead, mutations>>

\* TryIntoErr that returns the defaults when the merged document does not
\* decode.
TryIntoErr_Guessed ==
    /\ pc = "Decoding"
    /\ filename = SomePath
    /\ Decode(configType, config) = <<>>
    /\ Decode(configType, DEFAULTS(platform)) # <<>>
    /\ pc' = "Ready"
    /\ result' = "Ok"
    /\ settings' = Decode(configType, DEFAULTS(platform))
    /\ returned' = settings'
    /\ UNCHANGED <<env, filename, config, lastRead, mutations>>

\* settings.try_into().map_err(Error::from), failure
TryIntoErr ==
    /\ pc = "Decoding"
    /\ filename = SomePath
    /\ Decode(configType, config) = <<>>
    /\ pc' = "Failed"
    /\ result' = "Err"
    /\ UNCHANGED <<env, filename, config, settings, returned, lastRead, mutations>>

\* serde_json::from_str(DEFAULTS): the text is parsed
FromStrDefaults ==
    /\ pc = "Merging"
    /\ filename = NoneArg
    /\ config' = DEFAULTS(platform)
    /\ pc' = "Decoding"
    /\ UNCHANGED <<env, filename, result, settings, returned, lastRead, mutations>>

\* Ok(serde_json::from_str::<Settings<T>>(DEFAULTS).expect(..)), decoded
DefaultsOk ==
    /\ pc = "Decoding"
    /\ filename = NoneArg
    /\ Decode(configType, config) # <<>>
    /\ pc' = "Ready"
    /\ result' = "Ok"
    /\ settings' = Decode(configType, config)
    /\ returned' = settings'
    /\ UNCHANGED <<env, filename, config, lastRead, mutations>>

\* DefaultsPanic that hands the failure to the caller as an error.
DefaultsPanic_AsErr ==
    /\ pc = "Decoding"
    /\ filename = NoneArg
    /\ Decode(configType, config) = <<>>
    /\ pc' = "Failed"
    /\ result' = "Err"
    /\ UNCHANGED <<env, filename, config, settings, returned, lastRead, mutations>>

\* .expect("Invalid default configuration") on a decode failure
DefaultsPanic ==
    /\ pc = "Decoding"
    /\ filename = NoneArg
    /\ Decode(configType, config) = <<>>
    /\ pc' = "Failed"
    /\ result' = "Panic"
    /\ UNCHANGED <<env, filename, config, settings, returned, lastRead, mutations>>

----------------------------------------------------------------------------
\* Accessors

\* provisioning(&self)
provisioning ==
    /\ pc = "Ready"
    /\ lastRead' = <<"provisioning", settings[1].provisioning>>
    /\ UNCHANGED <<env, pc, filename, config, result, settings, returned, mutations>>

\* runtime(&self)
runtime ==
    /\ pc = "Ready"
    /\ lastRead' = <<"runtime", settings[1].runtime>>
    /\ UNCHANGED <<env, pc, filename, config, result, settings, returned, mutations>>

\* hostname(&self)
hostname ==
    /\ pc = "Ready"
    /\ lastRead' = <<"hostname", settings[1].hostname>>
    /\ UNCHANGED <<env, pc, filename, config, result, settings, returned, mutations>>

\* workload_uri(&self)
workload_uri ==
    /\ pc = "Ready"
    /\ lastRead' = <<"workload_uri", settings[1].workload_uri>>
    /\ UNCHANGED <<env, pc, filename, config, result, settings, returned, mutations>>

\* management_uri(&self)
management_uri ==
    /\ pc = "Ready"
    /\ lastRead' = <<"management_uri", settings[1].management_uri>>
    /\ UNCHANGED <<env, pc, filename, config, result, settings, returned, mutations>>

\* docker_uri(&self)
docker_uri ==
    /\ pc = "Ready"
    /\ lastRead' = <<"docker_uri", settings[1].docker_uri>>
    /\ UNCHANGED <<env, pc, filename, config, result, settings, returned, mutations>>

IdentityEnv == [k \in {"IOTEDGE_MODULEID"} |-> "$edgeAgent"]

\* What a caller holding &mut ModuleSpec<T> may write into it.
PatchKinds == {"env", "name", "type"}

Patch(r, kind) ==
    CASE kind = "env" -> [r EXCEPT !.env = IdentityEnv]
      [] kind = "name" -> [r EXCEPT !.name = "edgeAgent-1"]
      [] OTHER -> [r EXCEPT !.type = "patched"]

\* runtime_mut that hands out the whole Settings: the write reaches hostname.
runtime_mut_WholeSettings(kind) ==
    /\ pc = "Ready"
    /\ mutations < MaxMutations
    /\ settings' = <<[settings[1] EXCEPT !.runtime = Patch(settings[1].runtime, kind),
                                         !.hostname = "patched"]>>
    /\ mutations' = mutations + 1
    /\ UNCHANGED <<env, pc, filename, config, result, returned, lastRead>>

\* runtime_mut(), and the caller's write through the reference
runtime_mut(kind) ==
    /\ pc = "Ready"
    /\ mutations < MaxMutations
    /\ settings' = <<[settings[1] EXCEPT !.runtime = Patch(settings[1].runtime, kind)]>>
    /\ mutations' = mutations + 1
    /\ UNCHANGED <<env, pc, filename, config, result, returned, lastRead>>

Next ==
    \/ \E fn \in {NoneArg, SomePath}, f \in FileStates : New(fn, f)
    \/ MergeFileOk
    \/ MergeFileErr
    \/ TryIntoOk
    \/ TryIntoErr
    \/ FromStrDefaults
    \/ DefaultsOk
    \/ DefaultsPanic
    \/ provisioning
    \/ runtime
    \/ hostname
    \/ workload_uri
    \/ management_uri
    \/ docker_uri
    \/ \E kind \in PatchKinds : runtime_mut(kind)

Spec == Init /\ [][Next]_vars

TypeOK ==
    /\ pc \in {"NotLoaded", "Merging", "Decoding", "Ready", "Failed"}
    /\ result \in {"None", "Ok", "Err", "Panic"}
    /\ mutations \in 0..MaxMutations

----------------------------------------------------------------------------
\* Properties

Done == pc \in {"Ready", "Failed"}

ViaFile == filename = SomePath /\ file.status = "ok"

\* The document the loader is specified to decode for an override file:
\* the file laid over the embedded defaults.
Layered == Merge(DEFAULTS(platform), file.doc)

SettingsFields ==
    {"provisioning", "runtime", "hostname", "workload_uri", "management_uri",
     "docker_uri"}

FrozenFields == SettingsFields \ {"runtime"}

KeysOf(f) ==
    CASE f = "provisioning" -> ProvKeys
      [] f = "runtime" -> RuntimeKeys
      [] OTHER -> {f}

Omits(doc, f) == \A k \in KeysOf(f) : doc[k] = Absent

\* The values written in the embedded default document, as Settings<DockerConfig>.
LiteralDefaults(p) ==
    [provisioning |->
        [variant |-> "Manual", device_connection_string |-> DefaultConnStr],
     runtime |->
        [name |-> "edgeAgent", type |-> "docker", env |-> <<>>,
         config |-> [image |-> "microsoft/azureiotedge-agent:1.0-preview",
                     create_options |-> "", auth |-> EmptyObj]],
     hostname |-> "localhost",
     workload_uri |-> UrlParse("http://0.0.0.0:8081"),
     management_uri |-> UrlParse("http://0.0.0.0:8080"),
     docker_uri |-> IF p = "unix" THEN UrlParse("unix:///var/run/docker.sock")
                                  ELSE UrlParse("http://localhost:2375")]

\* T accepts the runtime.config object of the embedded default document.
DefaultConfigDecodes == DecodeConfig(configType, DEFAULTS(platform)) # <<>>

\* C1: a load from an override file that sets only some of the leaves (and
\* whose values laid over the defaults decode) succeeds, and every field the
\* file omits has the value of the embedded default document.
C1_OmittedFieldsFallBack ==
    (Done /\ ViaFile /\ Decode(configType, Layered) # <<>>) =>
        /\ result = "Ok"
        /\ \A f \in SettingsFields \ {"provisioning"} :
                Omits(file.doc, f) =>
                    returned[1][f] = Decode(configType, Layered)[1][f]

\* C2 as claimed: Settings::new(None) always returns Ok with the literal
\* values of the embedded default document.
C2_NoneAlwaysOk ==
    (Done /\ filename = NoneArg) =>
        result = "Ok" /\ returned = <<LiteralDefaults(platform)>>

\* C2, amended: Settings::new(None) never returns Err; when T accepts the
\* default runtime.config it returns Ok, and whenever it returns Ok the
\* Settings holds the literal values of the default document of the build
\* platform.
C2_NoneYieldsDefaults ==
    (Done /\ filename = NoneArg) =>
        /\ result \in {"Ok", "Panic"}
        /\ DefaultConfigDecodes => result = "Ok"
        /\ result = "Ok" => returned = <<LiteralDefaults(platform)>>

C2_Witness ==
    pc = "Ready" /\ filename = NoneArg /\ returned = <<LiteralDefaults(platform)>>

\* C3: when a load from an override file succeeds, every leaf the file sets
\* and the schema decodes has the file's value in the returned Settings.
C3_FileValuesWin ==
    (result = "Ok" /\ ViaFile) =>
        LET d == file.doc
            s == returned[1]
        IN  /\ d["hostname"] # Absent => s.hostname = d["hostname"]
            /\ \A u \in {"workload_uri", "management_uri", "docker_uri"} :
                    d[u] # Absent => s[u] = UrlParse(d[u])
            /\ (s.provisioning.variant = "Manual"
                    /\ d["provisioning.device_connection_string"] # Absent) =>
                  s.provisioning.device_connection_string =
                      d["provisioning.device_connection_string"]
            /\ (s.provisioning.variant = "Dps"
                    /\ d["provisioning.global_endpoint"] # Absent) =>
                  s.provisioning.global_endpoint = d["provisioning.global_endpoint"]
            /\ (s.provisioning.variant = "Dps"
                    /\ d["provisioning.scope_id"] # Absent) =>
                  s.provisioning.scope_id = d["provisioning.scope_id"]
            /\ d["runtime.name"] # Absent => s.runtime.name = d["runtime.name"]
            /\ d["runtime.type"] # Absent => s.runtime.type = d["runtime.type"]
            /\ (configType = "DockerConfig" /\ d["runtime.config.image"] # Absent) =>
                  s.runtime.config.image = d["runtime.config.image"]
            /\ (configType = "ProcessConfig" /\ d["runtime.config.command"] # Absent) =>
                  s.runtime.config.command = d["runtime.config.command"]

C3_Witness ==
    /\ pc = "Ready"
    /\ ViaFile
    /\ file.doc["provisioning.device_connection_string"] = SampleConnStr
    /\ file.doc["hostname"] = "edge-device"
    /\ returned[1].hostname = "edge-device"
    /\ returned[1].provisioning.variant = "Manual"

\* The override file is byte-identical to the embedded default document.
FileIsDefaults == ViaFile /\ file.doc = DEFAULTS(platform)

\* How Settings::new(None) ends on this build.
NoneOutcome ==
    IF Decode(configType, DEFAULTS(platform)) # <<>>
    THEN <<"Ok", Decode(configType, DEFAULTS(platform))>>
    ELSE <<"Panic", <<>>>>

\* C4 as claimed: a load from a file identical to the embedded default
\* document succeeds, as the load with no path does, with an equal Settings.
C4_SameAsNoPath ==
    (Done /\ FileIsDefaults) =>
        result = "Ok" /\ NoneOutcome[1] = "Ok" /\ returned = NoneOutcome[2]

\* C4, amended: when T accepts the default runtime.config, the load with no
\* path and the load from a file identical to the embedded default document
\* both succeed with equal Settings; when T does not, both fail, the first
\* by a panic and the second by Err.
C4_SameAsNoPathWhenDecodable ==
    Done =>
        /\ filename = NoneArg => <<result, returned>> = NoneOutcome
        /\ (FileIsDefaults /\ DefaultConfigDecodes) =>
                NoneOutcome[1] = "Ok" /\ <<result, returned>> = NoneOutcome
        /\ (FileIsDefaults /\ ~DefaultConfigDecodes) =>
                NoneOutcome[1] = "Panic" /\ result = "Err" /\ returned = <<>>

C4_Witness == pc = "Ready" /\ FileIsDefaults /\ <<result, returned>> = NoneOutcome

\* C5: a load from a path that names no readable file returns Err and no
\* Settings value.
C5_MissingFileIsErr ==
    (Done /\ filename = SomePath /\ file.status = "missing") =>
        result = "Err" /\ pc = "Failed" /\ settings = <<>> /\ returned = <<>>

C5_Witness ==
    pc = "Failed" /\ filename = SomePath /\ file.status = "missing" /\ result = "Err"

\* C6: a load from a file that is not well-formed returns Err and no Settings
\* value.
C6_MalformedFileIsErr ==
    (Done /\ filename = SomePath /\ file.status = "malformed") =>
        result = "Err" /\ pc = "Failed" /\ settings = <<>> /\ returned = <<>>

C6_Witness ==
    pc = "Failed" /\ filename = SomePath /\ file.status = "malformed" /\ result = "Err"

\* C7: the provisioning variant of a Settings loaded from a file is decided
\* by the source discriminant alone: dps gives Dps with the file's
\* global_endpoint and scope_id, manual gives Manual with the file's
\* connection string, and a file with any other source never loads.
C7_SourceDecidesVariant ==
    (Done /\ ViaFile) =>
        LET d == file.doc
            src == d["provisioning.source"]
        IN  /\ (result = "Ok" /\ src = "dps") =>
                  returned[1].provisioning =
                      [variant |-> "Dps",
                       global_endpoint |-> d["provisioning.global_endpoint"],
                       scope_id |-> d["provisioning.scope_id"]]
            /\ (result = "Ok" /\ src = "manual") =>
                  returned[1].provisioning =
                      [variant |-> "Manual",
                       device_connection_string |->
                           d["provisioning.device_connection_string"]]
            /\ src \notin {"manual", "dps"} => result = "Err" /\ returned = <<>>

C7_Witness ==
    /\ pc = "Ready"
    /\ ViaFile
    /\ file.doc["provisioning.source"] = "dps"
    /\ returned[1].provisioning.variant = "Dps"
    /\ returned[1].provisioning.scope_id = ScopeId

PipelineEdges ==
    {<<"NotLoaded", "Merging">>, <<"Merging", "Decoding">>, <<"Merging", "Failed">>,
     <<"Decoding", "Ready">>, <<"Decoding", "Failed">>, <<"Ready", "Ready">>}

PipelineMove == <<pc, pc'>> \in PipelineEdges

PipelineState ==
    /\ result = "None" <=> ~Done
    /\ pc = "Failed" <=> result \in {"Err", "Panic"}
    /\ pc = "Ready" <=> result = "Ok"
    /\ pc # "Ready" => settings = <<>> /\ returned = <<>>
    /\ pc = "Ready" =>
          /\ returned = Decode(configType, config)
          /\ Len(returned) = 1
          /\ DOMAIN returned[1] = SettingsFields

\* C8: the load moves NotLoaded -> Merging -> Decoding -> Ready or Failed
\* and never back, nothing happens after Failed, every started load reaches
\* Ready or Failed, a failed load leaves no Settings value, and a returned
\* Settings is the decoding of the whole merged document.
C8_OneShotPipeline ==
    /\ [][PipelineMove]_vars
    /\ []PipelineState
    /\ (pc = "Merging") ~> Done

C8_Witness ==
    pc = "Failed" /\ ViaFile /\ config = file.doc /\ result = "Err" /\ settings = <<>>

\* C9: when the embedded default document does not decode, the load with no
\* path panics; Settings::new(None) never returns Err.
C9_DefaultFailurePanics ==
    /\ filename = NoneArg => result # "Err"
    /\ (Done /\ filename = NoneArg /\ Decode(configType, DEFAULTS(platform)) = <<>>) =>
            result = "Panic" /\ pc = "Failed" /\ returned = <<>>

C9_Witness == pc = "Failed" /\ filename = NoneArg /\ result = "Panic"

Frozen(s) == [f \in FrozenFields |-> s[1][f]]

\* C10: after the load returned, provisioning, hostname and the three URIs
\* keep the values they were returned with; a read accessor returns the
\* field's current value and changes no field, and a write through
\* runtime_mut changes the runtime field only.
C10_OnlyRuntimeMutable ==
    /\ [](pc = "Ready" => Frozen(settings) = Frozen(returned))
    /\ [][pc = "Ready" =>
            /\ Frozen(settings') = Frozen(settings)
            /\ lastRead' # lastRead =>
                  settings' = settings /\ lastRead'[2] = settings[1][lastRead'[1]]
            /\ settings' # settings =>
                  lastRead' = lastRead /\ settings'[1].runtime # settings[1].runtime]_vars

C10_Witness ==
    /\ pc = "Ready"
    /\ mutations = MaxMutations
    /\ settings[1].runtime # returned[1].runtime
    /\ lastRead = <<"runtime", settings[1].runtime>>

\* Specification with the scheduling of a synchronous call: a started load
\* runs to its end.
LoadStep ==
    \/ MergeFileOk
    \/ MergeFileErr
    \/ TryIntoOk
    \/ TryIntoErr
    \/ FromStrDefaults
    \/ DefaultsOk
    \/ DefaultsPanic

FairSpec == Spec /\ WF_vars(LoadStep)

====
